---- MODULE Spec2Model ----
(***************************************************************************)
(* Model of load_tweets.py: the per-record transaction of insert_tweet,    *)
(* the url resolver get_id_urls and the sanitizer remove_nulls, run by     *)
(* loader processes against one shared PostgreSQL database (READ COMMITTED,*)
(* every write an INSERT ... ON CONFLICT DO NOTHING or an UPDATE).         *)
(***************************************************************************)
EXTENDS Integers, Sequences, FiniteSets, TLC

(***************************************************************************)
(* Python values.  Every value is tagged, so that None, a string, a list   *)
(* and a dict can be told apart the way the interpreter tells them apart.  *)
(* A string is a sequence of characters; NUL stands for '\x00'.            *)
(***************************************************************************)
None_ == [ty |-> "none"]
PyInt(n) == [ty |-> "int", val |-> n]
PyBool(b) == [ty |-> "bool", val |-> b]
PyStr(s) == [ty |-> "str", val |-> s]
PyList(s) == [ty |-> "list", val |-> s]
PyDict(d) == [ty |-> "dict", val |-> d]
\* a raised exception, propagating through the expression that raised it
Exc(e) == [ty |-> "exc", val |-> e]
IsExc(x) == x.ty = "exc"
NUL == "NUL"
EmptyDict == PyDict(<<>>)

\* x[k] for a string key k
Subscript(x, k) ==
    IF IsExc(x) THEN x
    ELSE IF x.ty = "dict"
         THEN IF k \in DOMAIN x.val THEN x.val[k] ELSE Exc("KeyError")
         ELSE Exc("TypeError")

\* x[i] for an integer index i (0-based, as in Python)
Index(x, i) ==
    IF IsExc(x) THEN x
    ELSE IF x.ty \in {"list", "str"}
         THEN IF i + 1 \in 1..Len(x.val)
              THEN (IF x.ty = "list" THEN x.val[i + 1] ELSE PyStr(<<x.val[i + 1]>>))
              ELSE Exc("IndexError")
         ELSE IF x.ty = "dict" THEN Exc("KeyError")
         ELSE Exc("TypeError")

\* x.get(k, d)
Get(x, k, d) ==
    IF IsExc(x) THEN x
    ELSE IF x.ty = "dict"
         THEN IF k \in DOMAIN x.val THEN x.val[k] ELSE d
         ELSE Exc("AttributeError")

\* the first exception among the values of a sequence, or None_ when there is none
RECURSIVE FirstExc(_)
FirstExc(s) ==
    IF s = <<>> THEN None_
    ELSE IF IsExc(Head(s)) THEN Head(s) ELSE FirstExc(Tail(s))

\* "for x in v": a list is iterated, None is not iterable (the inputs hold no other type)
Iter(x) ==
    IF IsExc(x) THEN x
    ELSE IF x.ty = "list" THEN x
    ELSE Exc("TypeError")

(***************************************************************************)
(* remove_nulls                                                            *)
(***************************************************************************)
\* s.replace('\x00', '', 1): only the first occurrence is removed
RECURSIVE DropFirstNul(_)
DropFirstNul(cs) ==
    IF cs = <<>> THEN cs
    ELSE IF Head(cs) = NUL THEN Tail(cs)
    ELSE <<Head(cs)>> \o DropFirstNul(Tail(cs))
remove_first_null(s) ==
    IF IsExc(s) THEN s
    ELSE IF s.ty = "none" THEN None_
    ELSE IF s.ty = "str" THEN PyStr(DropFirstNul(s.val))
    ELSE Exc("AttributeError")

remove_nulls(s) ==
    IF IsExc(s) THEN s
    ELSE IF s.ty = "none" THEN None_
    ELSE IF s.ty = "str" THEN PyStr(SelectSeq(s.val, LAMBDA c : c # NUL))
    ELSE Exc("AttributeError")

(***************************************************************************)
(* Helpers of the normalisation code (lines 188-234)                       *)
(***************************************************************************)
\* truth value of x in "if x:"
Truthy(x) ==
    CASE x.ty = "bool" -> x.val
      [] x.ty = "none" -> FALSE
      [] x.ty = "int" -> x.val # 0
      [] x.ty \in {"str", "list"} -> Len(x.val) > 0
      [] OTHER -> TRUE

\* str.lower() on the letters the inputs use
LowerChar(c) ==
    CASE c = "U" -> "u"
      [] c = "S" -> "s"
      [] c = "T" -> "t"
      [] c = "X" -> "x"
      [] c = "G" -> "g"
      [] c = "B" -> "b"
      [] OTHER -> c

Lower(s) == [i \in 1..Len(s) |-> LowerChar(s[i])]

\* s.split(',')[-1]: what follows the last comma
RECURSIVE LastComponent(_)
LastComponent(s) ==
    IF \A i \in 1..Len(s) : s[i] # ","
    THEN s
    ELSE LastComponent(Tail(s))

\* s.strip(): leading and trailing blanks removed
RECURSIVE Strip(_)
Strip(s) ==
    IF s = <<>> THEN s
    ELSE IF Head(s) = " " THEN Strip(Tail(s))
    ELSE IF s[Len(s)] = " " THEN Strip(SubSeq(s, 1, Len(s) - 1))
    ELSE s

(***************************************************************************)
(* Geometry (lines 188-212).  A geometry string is modelled by its parts:  *)
(* 'POINT(x y)' is Wkt("POINT", <the point>), 'POLYGON((..),(..))' is      *)
(* Wkt("POLYGON", <the rings>), '' is EmptyStr and None is None_.          *)
(* Try(x, e, handler) is "try: x / except e: handler".                     *)
(***************************************************************************)
EmptyStr == PyStr(<<>>)
Pt(x, y) == [ty |-> "pt", x |-> x, y |-> y]
Wkt(kind, body) == [ty |-> "wkt", kind |-> kind, body |-> body]

Try(x, e, handler) == IF IsExc(x) /\ x.val = e THEN handler ELSE x

\* the value e of a sequence of evaluations s, unless one of them raised
Unless(s, e) == IF IsExc(FirstExc(s)) THEN FirstExc(s) ELSE e

\* str(p[0]) + ' ' + str(p[1]), or the exception p[0] or p[1] raises
PairOf(px, py) == Unless(<<px, py>>, Pt(px, py))
GeoPair(p) == PairOf(Index(p, 0), Index(p, 1))

\* lines 190-193: the POINT of tweet['geo']['coordinates'], or the exception raised
WktOf(kind, body) == Unless(<<body>>, Wkt(kind, body))
ListOf(x) == Unless(<<x>>, PyList(<<x>>))
GeoPoint(tweet) ==
    WktOf("POINT", ListOf(GeoPair(Subscript(Subscript(tweet, "geo"), "coordinates"))))

\* lines 200-204: one ring, every point of poly then its first point again
RingOf(pts) == Unless(pts, PyList(pts))
GeoRing(poly) ==
    IF IsExc(Iter(poly)) THEN Iter(poly)
    ELSE RingOf(Append([j \in 1..Len(poly.val) |-> GeoPair(poly.val[j])],
                       GeoPair(Index(poly, 0))))

\* lines 196-207: the POLYGON of tweet['place']['bounding_box']['coordinates']
PolygonOf(cs) ==
    IF IsExc(Iter(cs)) THEN Iter(cs)
    ELSE RingOf([i \in 1..Len(cs.val) |-> GeoRing(cs.val[i])])
GeoPolygon(tweet) ==
    WktOf("POLYGON", PolygonOf(Subscript(Subscript(Subscript(tweet, "place"), "bounding_box"),
                                         "coordinates")))

\* lines 209-212: the fallback when no geometry is found; geo keeps its initial ''
FallbackOf(enabled) == Unless(<<enabled>>, IF Truthy(enabled) THEN None_ ELSE EmptyStr)
GeoFallback(tweet) == FallbackOf(Subscript(Subscript(tweet, "user"), "geo_enabled"))

\* lines 188-212: the value of geo, or the exception that leaves insert_tweet
NormalizeGeo(tweet) ==
    Try(GeoPoint(tweet), "TypeError", Try(GeoPolygon(tweet), "KeyError", GeoFallback(tweet)))

\* lines 214-217: "except:" catches every exception
TextOf(full, text) == IF IsExc(full) THEN text ELSE full
NormalizeText(tweet) ==
    TextOf(Subscript(Subscript(tweet, "extended_tweet"), "full_text"), Subscript(tweet, "text"))

\* x.lower()
LowerOf(x) ==
    IF IsExc(x) THEN x
    ELSE IF x.ty = "str" THEN PyStr(Lower(x.val))
    ELSE Exc("AttributeError")

\* lines 219-222
NormalizeCountry(tweet) ==
    Try(LowerOf(Subscript(Subscript(tweet, "place"), "country_code")), "TypeError", None_)

\* lines 224-229
StateOf(cc, fn) ==
    IF IsExc(cc) THEN cc
    ELSE IF cc # PyStr(<<"u", "s">>) THEN None_
    ELSE IF IsExc(fn) THEN fn
    ELSE IF fn.ty # "str" THEN Exc("AttributeError")
    ELSE IF Len(Lower(Strip(LastComponent(fn.val)))) > 2 THEN None_
    ELSE PyStr(Lower(Strip(LastComponent(fn.val))))
NormalizeState(tweet) ==
    StateOf(NormalizeCountry(tweet), Subscript(Subscript(tweet, "place"), "full_name"))

\* lines 231-234
NormalizePlaceName(tweet) ==
    Try(Subscript(Subscript(tweet, "place"), "full_name"), "TypeError", None_)

\* lines 188-234 in order: the first exception raised, or None_
NormalizeExc(tweet) ==
    FirstExc(<<NormalizeGeo(tweet), NormalizeText(tweet), NormalizeCountry(tweet),
               NormalizeState(tweet), NormalizePlaceName(tweet)>>)

(***************************************************************************)
(* The input records.  Each loader draws the tweets it loads from this     *)
(* catalogue of decoded JSON objects (json.loads, line 460).               *)
(***************************************************************************)
UserA == PyInt(1)
UserB == PyInt(2)
Tweet1 == PyInt(11)
Tweet2 == PyInt(12)
Tweet3 == PyInt(13)
UrlU == PyStr(<<"u">>)
UrlW == PyStr(<<"w">>)

PlaceBox ==
    PyDict([bounding_box |-> PyDict([coordinates |-> PyList(<<PyList(<<
                PyList(<<PyInt(0), PyInt(0)>>), PyList(<<PyInt(0), PyInt(1)>>),
                PyList(<<PyInt(1), PyInt(1)>>)>>)>>)]),
            country_code |-> PyStr(<<"U", "S">>),
            full_name |-> PyStr(<<"A", ",", " ", "T", "X">>)])
PlaceNoBox ==
    PyDict([country_code |-> PyStr(<<"G", "B">>), full_name |-> PyStr(<<"L">>)])
GeoPt == PyDict([coordinates |-> PyList(<<PyInt(3), PyInt(4)>>)])

ProfileOne(id, url, enabled) ==
    PyDict([id |-> id, url |-> url, created_at |-> PyStr(<<"1">>),
            friends_count |-> PyInt(5), verified |-> PyBool(TRUE),
            screen_name |-> PyStr(<<"s", NUL>>), name |-> PyStr(<<"n">>),
            description |-> PyStr(<<NUL, "d">>), geo_enabled |-> PyBool(enabled)])
ProfileTwo(id, url, enabled) ==
    PyDict([id |-> id, url |-> url, created_at |-> PyStr(<<"2">>),
            friends_count |-> PyInt(6), location |-> PyStr(<<"l">>),
            screen_name |-> PyStr(<<"z">>), name |-> None_,
            geo_enabled |-> PyBool(enabled)])

MentionOf(id) == PyDict([id |-> id, screen_name |-> PyStr(<<"m", NUL>>), name |-> PyStr(<<"M">>)])
LinkOf(url) == PyDict([expanded_url |-> url])
MediumOf(url) == PyDict([media_url |-> url, type |-> PyStr(<<"p">>)])
TagOf(s) == PyDict([text |-> PyStr(s)])
Entities(urls, mentions, hashtags, symbols) ==
    PyDict([urls |-> PyList(urls), user_mentions |-> PyList(mentions),
            hashtags |-> PyList(hashtags), symbols |-> PyList(symbols)])

Catalogue ==
    [ra |-> PyDict([id |-> Tweet1, user |-> ProfileOne(UserA, UrlU, TRUE),
                    created_at |-> PyStr(<<"c">>), text |-> PyStr(<<"t", NUL>>),
                    source |-> PyStr(<<"w">>), lang |-> PyStr(<<"e">>),
                    in_reply_to_user_id |-> UserA,
                    geo |-> GeoPt, place |-> PlaceBox,
                    entities |-> Entities(<<LinkOf(UrlU)>>, <<MentionOf(UserB), MentionOf(UserA)>>,
                                          <<TagOf(<<"h", NUL>>)>>, <<TagOf(<<"c">>)>>),
                    extended_entities |-> PyDict([media |-> PyList(<<MediumOf(UrlW)>>)])]),
     rb |-> PyDict([id |-> Tweet2, user |-> ProfileOne(UserB, None_, FALSE),
                    text |-> PyStr(<<"b">>),
                    in_reply_to_user_id |-> UserA, in_reply_to_status_id |-> Tweet1,
                    geo |-> None_, place |-> PlaceBox,
                    entities |-> Entities(<<LinkOf(UrlU)>>, <<MentionOf(UserA)>>, <<>>, <<>>)]),
     rc |-> PyDict([id |-> Tweet3, user |-> ProfileTwo(UserA, UrlW, TRUE),
                    text |-> PyStr(<<"s">>),
                    extended_tweet |-> PyDict([full_text |-> PyStr(<<"f", NUL, "t">>),
                        entities |-> Entities(<<>>, <<>>, <<TagOf(<<"x">>)>>, <<>>)]),
                    in_reply_to_user_id |-> UserB,
                    geo |-> None_, place |-> PlaceNoBox,
                    entities |-> Entities(<<LinkOf(UrlW)>>, <<MentionOf(UserA)>>, <<>>, <<>>)]),
     re |-> PyDict([id |-> Tweet2, user |-> ProfileOne(UserB, UrlW, TRUE),
                    text |-> PyStr(<<"e">>),
                    in_reply_to_user_id |-> UserA,
                    geo |-> GeoPt, place |-> None_,
                    entities |-> Entities(<<LinkOf(UrlU), EmptyDict>>, <<>>, <<>>, <<>>)]),
     rf |-> PyDict([id |-> Tweet1, user |-> ProfileOne(UserA, None_, TRUE),
                    text |-> PyStr(<<"g">>),
                    in_reply_to_user_id |-> None_,
                    geo |-> None_, place |-> None_,
                    entities |-> Entities(<<>>, <<>>, <<>>, <<>>)])]

Records == DOMAIN Catalogue

(***************************************************************************)
(* Further lines a batch can hold: records whose geo, place, entities or   *)
(* withheld_in_countries have another shape than those of the catalogue.   *)
(***************************************************************************)
Plain(id) ==
    [id |-> id, user |-> ProfileTwo(UserB, None_, TRUE), text |-> PyStr(<<"p">>),
     in_reply_to_user_id |-> None_]
WithEntities(id) == [entities |-> Entities(<<>>, <<>>, <<>>, <<>>)] @@ Plain(id)

Shapes ==
    [\* no geo key: tweet['geo'] raises KeyError
     sg1 |-> PyDict([place |-> PlaceBox] @@ WithEntities(Tweet3)),
     \* geo without a coordinate pair: falls through to the bounding box
     sg2 |-> PyDict([geo |-> PyDict([coordinates |-> None_]), place |-> PlaceBox]
                    @@ WithEntities(Tweet3)),
     \* geo of a wrong type, place with a null bounding box
     sg3 |-> PyDict([geo |-> PyStr(<<"x">>),
                     place |-> PyDict([bounding_box |-> None_,
                                       country_code |-> PyStr(<<"G", "B">>),
                                       full_name |-> PyStr(<<"L">>)])]
                    @@ WithEntities(Tweet3)),
     \* geo with one coordinate only
     sg4 |-> PyDict([geo |-> PyDict([coordinates |-> PyList(<<PyInt(3)>>)]),
                     place |-> PlaceBox] @@ WithEntities(Tweet3)),
     \* neither an entities nor an extended_tweet container
     se1 |-> PyDict([geo |-> GeoPt, place |-> PlaceNoBox] @@ Plain(Tweet3)),
     \* an extended_tweet without entities: the base container is used
     se2 |-> PyDict([geo |-> GeoPt, place |-> PlaceNoBox,
                     extended_tweet |-> PyDict([full_text |-> PyStr(<<"q">>)]),
                     entities |-> Entities(<<LinkOf(UrlW)>>, <<MentionOf(UserA)>>,
                                           <<TagOf(<<"y">>)>>, <<>>)] @@ Plain(Tweet3)),
     \* a tweet withheld in a list of countries
     sw1 |-> PyDict([geo |-> GeoPt, place |-> PlaceNoBox,
                     withheld_in_countries |-> PyList(<<PyStr(<<"T", "X">>)>>)]
                    @@ WithEntities(Tweet3))]

\* every decoded line: the records of the catalogue and the further shapes
Inputs == Catalogue @@ Shapes

(***************************************************************************)
(* The database.  A table is a set of rows; Key gives the columns of the   *)
(* table's primary key or unique constraint, on which ON CONFLICT acts.    *)
(***************************************************************************)
Tables == {"users", "tweets", "urls", "tweet_urls", "tweet_mentions", "tweet_tags",
           "tweet_media"}

Key(tab, row) ==
    CASE tab = "users" -> row.id_users
      [] tab = "tweets" -> row.id_tweets
      [] tab = "urls" -> row.url
      [] tab = "tweet_urls" -> <<row.id_tweets, row.id_urls>>
      [] tab = "tweet_mentions" -> <<row.id_tweets, row.id_users>>
      [] tab = "tweet_tags" -> <<row.id_tweets, row.tag>>
      [] tab = "tweet_media" -> <<row.id_tweets, row.id_urls>>

EmptyDb == [tab \in Tables |-> {}]

Loaders == {"L1", "L2"}
\* the number of records loaded in one run, over all loaders
MaxLoads == 3

VARIABLES
    db,        \* the committed rows of every table
    pend,      \* pend[l]: the rows written by l's open transaction, not yet committed
    urls_seq,  \* the next value of the sequence behind urls.id_urls
    pc,        \* pc[l]: the statement loader l executes next
    cur,       \* cur[l]: the catalogue name of the tweet l is loading
    loc,       \* loc[l]: the local variables of insert_tweet and get_id_urls
    outcome,   \* outcome[l]: how l's latest insert_tweet call ended
    loads,     \* the number of insert_tweet calls started so far
    fault,     \* fault[l]: the exception that ended l, and the statement that raised it
    start,     \* start[l]: the committed rows when l's current call began
    alone,     \* alone[l]: no other transaction was open during l's current call
    hist,      \* hist[l]: the finished insert_tweet calls of l, in order
    calls,     \* the get_id_urls calls that returned: who, in which call, from where, url, id
    probe      \* the experiment a run is part of (none when the loaders just load)

vars == <<db, pend, urls_seq, pc, cur, loc, outcome, loads, fault, start, alone, hist, calls,
          probe>>

NoFault == [at |-> "none", exc |-> "none"]
InTransaction(l) == pc[l] \notin {"idle", "crashed"}

NoLocals == [user_id_urls |-> None_, res_user |-> FALSE, i |-> 1, url |-> None_,
             ret |-> "none", id_urls |-> None_]

NoProbe == [kind |-> "none"]

\* the program before its first line: an empty database, every loader idle
Idle ==
    /\ db = EmptyDb
    /\ pend = [l \in Loaders |-> EmptyDb]
    /\ urls_seq = 1
    /\ pc = [l \in Loaders |-> "idle"]
    /\ cur = [l \in Loaders |-> "none"]
    /\ loc = [l \in Loaders |-> NoLocals]
    /\ outcome = [l \in Loaders |-> "none"]
    /\ loads = 0
    /\ fault = [l \in Loaders |-> NoFault]
    /\ start = [l \in Loaders |-> EmptyDb]
    /\ alone = [l \in Loaders |-> TRUE]
    /\ hist = [l \in Loaders |-> <<>>]
    /\ calls = {}

Init == Idle /\ probe = NoProbe

\* what a statement of l's transaction sees: the committed rows, with l's own writes
\* in place of the rows they supersede (READ COMMITTED)
View(l, tab) ==
    {r \in db[tab] : \A q \in pend[l][tab] : Key(tab, q) # Key(tab, r)} \cup pend[l][tab]

Lookup(l, tab, k) == {r \in View(l, tab) : Key(tab, r) = k}

(***************************************************************************)
(* The rows insert_tweet builds                                            *)
(***************************************************************************)
\* the fields of a row, in the order the code evaluates them
UsersColumns ==
    <<"id_users", "created_at", "updated_at", "id_urls", "friends_count", "listed_count",
      "favourites_count", "statuses_count", "protected", "verified", "screen_name", "name",
      "location", "description", "withheld_in_countries">>
TweetsColumns ==
    <<"id_tweets", "id_users", "created_at", "in_reply_to_status_id", "in_reply_to_user_id",
      "quoted_status_id", "retweet_count", "favorite_count", "quote_count",
      "withheld_copyright", "withheld_in_countries", "source", "text", "country_code",
      "state_code", "lang", "place_name", "geo">>

\* the exception raised while the parameters of a statement are evaluated, or None_
RowExc(cols, row) == FirstExc([i \in 1..Len(cols) |-> row[cols[i]]])

\* lines 115, 165-181: the parameters of the insert or update of the poster
UserDataOf(tweet, user, user_id_urls) ==
        [id_users |-> Get(user, "id", None_),
         created_at |-> Get(user, "created_at", None_),
         updated_at |-> Get(user, "updated_at", None_),
         id_urls |-> user_id_urls,
         friends_count |-> Get(user, "friends_count", PyInt(0)),
         listed_count |-> Get(user, "listed_count", PyInt(0)),
         favourites_count |-> Get(user, "favourites_count", PyInt(0)),
         statuses_count |-> Get(user, "statuses_count", PyInt(0)),
         protected |-> Get(user, "protected", PyBool(FALSE)),
         verified |-> Get(user, "verified", PyBool(FALSE)),
         screen_name |-> remove_nulls(Get(user, "screen_name", None_)),
         name |-> remove_nulls(Get(user, "name", None_)),
         location |-> remove_nulls(Get(user, "location", None_)),
         description |-> remove_nulls(Get(user, "description", None_)),
         withheld_in_countries |-> remove_nulls(Get(tweet, "withheld_in_countries", None_))]
UserData(tweet, user_id_urls) ==
    UserDataOf(tweet, Get(tweet, "user", EmptyDict), user_id_urls)

\* a users row with only the given columns set: the others are NULL
NullUser == [c \in {UsersColumns[i] : i \in 1..Len(UsersColumns)} |-> None_]

\* lines 248-257: the row of a reply target
ReplyStub(tweet) ==
    [NullUser EXCEPT !.id_users = Get(tweet, "in_reply_to_user_id", None_)]

\* lines 345-358: the row of a mentioned user
MentionStub(mention) ==
    [NullUser EXCEPT !.id_users = Get(mention, "id", None_),
                     !.screen_name = remove_nulls(Get(mention, "screen_name", None_)),
                     !.name = remove_nulls(Get(mention, "name", None_))]

\* lines 280-299: the parameters of the insert of the tweet
TweetData(tweet) ==
    [id_tweets |-> Get(tweet, "id", None_),
     id_users |-> Get(Get(tweet, "user", EmptyDict), "id", None_),
     created_at |-> Get(tweet, "created_at", None_),
     in_reply_to_status_id |-> Get(tweet, "in_reply_to_status_id", None_),
     in_reply_to_user_id |-> Get(tweet, "in_reply_to_user_id", None_),
     quoted_status_id |-> Get(tweet, "quoted_status_id", None_),
     retweet_count |-> Get(tweet, "retweet_count", PyInt(0)),
     favorite_count |-> Get(tweet, "favorite_count", PyInt(0)),
     quote_count |-> Get(tweet, "quote_count", PyInt(0)),
     withheld_copyright |-> Get(tweet, "withheld_copyright", PyBool(FALSE)),
     withheld_in_countries |-> Get(tweet, "withheld_in_countries", None_),
     source |-> remove_nulls(Get(tweet, "source", None_)),
     text |-> remove_nulls(NormalizeText(tweet)),
     country_code |-> NormalizeCountry(tweet),
     state_code |-> NormalizeState(tweet),
     lang |-> remove_nulls(Get(tweet, "lang", EmptyStr)),
     place_name |-> NormalizePlaceName(tweet),
     geo |-> NormalizeGeo(tweet)]

\* lines 306-309, 330-333: a collection of the extended entities, else of the entities
EntityList(tweet, k) ==
    Iter(Try(Subscript(Subscript(Subscript(tweet, "extended_tweet"), "entities"), k),
             "KeyError", Subscript(Subscript(tweet, "entities"), k)))

\* prefix + x['text']
Concat(prefix, s) ==
    IF IsExc(s) THEN s
    ELSE IF s.ty # "str" THEN Exc("TypeError")
    ELSE PyStr(<<prefix>> \o s.val)
TagText(prefix, x) == Concat(prefix, Subscript(x, "text"))

\* line 383: the list of the hashtags with '#' and of the symbols with '$'
TagsOf(hs, cs) ==
    IF IsExc(hs) THEN hs
    ELSE IF IsExc(cs) THEN cs
    ELSE RingOf([i \in 1..Len(hs.val) |-> TagText("#", hs.val[i])]
                \o [i \in 1..Len(cs.val) |-> TagText("$", cs.val[i])])

\* lines 376-381: both collections of the extended entities, else both of the entities
TagsFrom(eh, ec, bh, bc) ==
    IF ~IsExc(eh) /\ ~IsExc(ec) THEN TagsOf(Iter(eh), Iter(ec))
    ELSE IF IsExc(eh) /\ eh.val # "KeyError" THEN eh
    ELSE IF ~IsExc(eh) /\ ec.val # "KeyError" THEN ec
    ELSE IF IsExc(bh) THEN bh
    ELSE IF IsExc(bc) THEN bc
    ELSE TagsOf(Iter(bh), Iter(bc))

\* lines 376-383: the tags of the tweet
TagList(tweet) ==
    TagsFrom(Subscript(Subscript(Subscript(tweet, "extended_tweet"), "entities"), "hashtags"),
             Subscript(Subscript(Subscript(tweet, "extended_tweet"), "entities"), "symbols"),
             Subscript(Subscript(tweet, "entities"), "hashtags"),
             Subscript(Subscript(tweet, "entities"), "symbols"))

\* lines 403-409: the media of the tweet
MediaList(tweet) ==
    Iter(Try(Subscript(Subscript(Subscript(tweet, "extended_tweet"), "extended_entities"),
                       "media"),
             "KeyError",
             Try(Subscript(Subscript(tweet, "extended_entities"), "media"),
                 "KeyError", PyList(<<>>))))

(***************************************************************************)
(* SQL statements.  Every INSERT of the program is INSERT ... ON CONFLICT  *)
(* DO NOTHING: a row whose key is already there (committed, or written     *)
(* earlier by the same transaction) is discarded.                          *)
(***************************************************************************)
Columns(tab) ==
    CASE tab = "users" -> UsersColumns
      [] tab = "tweets" -> TweetsColumns
      [] tab = "urls" -> <<"url", "id_urls">>
      [] tab = "tweet_urls" -> <<"id_tweets", "id_urls">>
      [] tab = "tweet_mentions" -> <<"id_tweets", "id_users">>
      [] tab = "tweet_tags" -> <<"id_tweets", "tag">>
      [] tab = "tweet_media" -> <<"id_tweets", "id_urls", "type">>

\* an insert without "on conflict do nothing" and without a unique index
InsertAlways(l, tab, row) == [pend[l] EXCEPT ![tab] = @ \cup {row}]

\* "insert into tab ... on conflict do nothing": l's written rows after the statement
InsertOnConflictDoNothing(l, tab, row) ==
    IF Lookup(l, tab, Key(tab, row)) # {}
    THEN pend[l]
    ELSE [pend[l] EXCEPT ![tab] = @ \cup {row}]

\* an update that changes no row
UpdateNothing(l, tab, row) == pend[l]

\* "update users set ... where id_users = :id_users": l's written rows after it
UpdateWhereKey(l, tab, row) ==
    IF Lookup(l, tab, Key(tab, row)) = {}
    THEN pend[l]
    ELSE [pend[l] EXCEPT ![tab] = {q \in @ : Key(tab, q) # Key(tab, row)} \cup {row}]

Tweet(l) == Inputs[cur[l]]

NoStmt == [kind |-> "none"]
InsertStmt(tab, row) == [kind |-> "insert", tab |-> tab, row |-> row]
UpdateStmt(tab, row) == [kind |-> "update", tab |-> tab, row |-> row]

\* the collection the loop l is in runs over
LoopList(l) ==
    CASE pc[l] \in {"links", "link_ins"} -> EntityList(Tweet(l), "urls")
      [] pc[l] \in {"mentions", "mention_ins"} -> EntityList(Tweet(l), "user_mentions")
      [] pc[l] = "tags" -> TagList(Tweet(l))
      [] pc[l] \in {"media", "media_ins"} -> MediaList(Tweet(l))
      [] OTHER -> PyList(<<>>)

\* the element at index i of the collection, None_ past its end
ItemOf(list, i) ==
    IF IsExc(list) THEN None_
    ELSE IF i > Len(list.val) THEN None_
    ELSE list.val[i]
Item(l) == ItemOf(LoopList(l), loc[l].i)

\* the statement l's transaction sends next, where it is at a writing statement;
\* item is the element of the loop l is in
StmtOf(l, tweet, item) ==
    CASE pc[l] = "gi_ins" ->
            InsertStmt("urls", [url |-> loc[l].url, id_urls |-> PyInt(urls_seq)])
      [] pc[l] = "user_write" /\ loc[l].res_user ->
            UpdateStmt("users", UserData(tweet, loc[l].user_id_urls))
      [] pc[l] = "user_write" /\ ~loc[l].res_user ->
            InsertStmt("users", UserData(tweet, loc[l].user_id_urls))
      [] pc[l] = "reply_stub" -> InsertStmt("users", ReplyStub(tweet))
      [] pc[l] = "tweet_ins" -> InsertStmt("tweets", TweetData(tweet))
      [] pc[l] = "link_ins" ->
            InsertStmt("tweet_urls", [id_tweets |-> Get(tweet, "id", None_),
                                      id_urls |-> loc[l].id_urls])
      [] pc[l] = "mentions" /\ item # None_ -> InsertStmt("users", MentionStub(item))
      [] pc[l] = "mention_ins" ->
            InsertStmt("tweet_mentions", [id_tweets |-> Get(tweet, "id", None_),
                                          id_users |-> Get(item, "id", None_)])
      [] pc[l] = "tags" /\ item # None_ ->
            InsertStmt("tweet_tags", [id_tweets |-> Get(tweet, "id", None_),
                                      tag |-> remove_nulls(item)])
      [] pc[l] = "media_ins" ->
            InsertStmt("tweet_media", [id_tweets |-> Get(tweet, "id", None_),
                                       id_urls |-> loc[l].id_urls,
                                       type |-> Get(item, "type", None_)])
      [] OTHER -> NoStmt
Stmt(l) == StmtOf(l, Tweet(l), Item(l))

\* the exception raised while the parameters of statement s are built, or None_
StmtExc(s) ==
    IF s.kind = "none" THEN None_
    ELSE RowExc(Columns(s.tab), s.row)

\* the transactions that hold a row with the key of statement s: s waits for them
Holders(l, s, e) ==
    IF s.kind = "none" \/ IsExc(e) THEN {}
    ELSE {m \in Loaders \ {l} : \E q \in pend[m][s.tab] : Key(s.tab, q) = Key(s.tab, s.row)}
WaitsForStmt(l, s) == Holders(l, s, StmtExc(s))
WaitsFor(l) == WaitsForStmt(l, Stmt(l))

\* l's written rows after statement s has run
Execute(l, s) ==
    IF s.kind = "update"
    THEN UpdateWhereKey(l, s.tab, s.row)
    ELSE InsertOnConflictDoNothing(l, s.tab, s.row)

(***************************************************************************)
(* Control: a step of insert_tweet goes on, or raises.  An exception       *)
(* leaves the "with connection.begin()" block (line 94), which rolls the   *)
(* transaction back, and then the main loop (line 461), which ends the     *)
(* process.                                                                *)
(***************************************************************************)
\* the record of a call of insert_tweet(tweet) by l as it ends with outcome oc, the
\* committed rows then being post: was the id new when the call began, are the
\* committed rows those of then, is the tweets row of the record stored, and the
\* committed users row of its poster
FinishedOf(l, tweet, oc, post) ==
    [rec |-> cur[l], oc |-> oc, alone |-> alone[l],
     fresh |-> \A r \in start[l].tweets : r.id_tweets # Get(tweet, "id", None_),
     same |-> post = start[l],
     stored |-> oc = "Inserted" /\ TweetData(tweet) \in post.tweets,
     author |-> {r \in post.users :
                    r.id_users = Get(Get(tweet, "user", EmptyDict), "id", None_)}]
Finished(l, oc, post) == FinishedOf(l, Tweet(l), oc, post)

Continue(l, p, lc, pd) ==
    /\ pc' = [pc EXCEPT ![l] = p]
    /\ loc' = [loc EXCEPT ![l] = lc]
    /\ pend' = [pend EXCEPT ![l] = pd]
    /\ UNCHANGED <<db, cur, outcome, loads, fault, start, alone, hist, probe>>

\* a failure outside a transaction: the rows written so far stay
RaiseNoRollback(l, e) ==
    /\ pc' = [pc EXCEPT ![l] = "crashed"]
    /\ loc' = [loc EXCEPT ![l] = NoLocals]
    /\ db' = [tab \in Tables |-> View(l, tab)]
    /\ pend' = [pend EXCEPT ![l] = EmptyDb]
    /\ outcome' = [outcome EXCEPT ![l] = "Failed"]
    /\ fault' = [fault EXCEPT ![l] = [at |-> pc[l], exc |-> e.val]]
    /\ hist' = [hist EXCEPT ![l] = Append(@, Finished(l, "Failed", db'))]
    /\ UNCHANGED <<cur, loads, start, alone, probe>>

Raise(l, e) ==
    /\ pc' = [pc EXCEPT ![l] = "crashed"]
    /\ loc' = [loc EXCEPT ![l] = NoLocals]
    /\ pend' = [pend EXCEPT ![l] = EmptyDb]
    /\ outcome' = [outcome EXCEPT ![l] = "Failed"]
    /\ fault' = [fault EXCEPT ![l] = [at |-> pc[l], exc |-> e.val]]
    /\ hist' = [hist EXCEPT ![l] = Append(@, Finished(l, "Failed", db))]
    /\ UNCHANGED <<db, cur, loads, start, alone, probe>>

\* the value x is needed: it was raised, or the step goes on at p with locals lc
Need(l, x, p, lc) ==
    IF IsExc(x) THEN Raise(l, x) ELSE Continue(l, p, lc, pend[l])

\* a writing statement s of l: building it raises e, or it waits, or it runs and l
\* goes on at p with locals lc
WriteStmt(l, s, e, p, lc) ==
    IF IsExc(e)
    THEN Raise(l, e)
    ELSE /\ Holders(l, s, e) = {}
         /\ Continue(l, p, lc, Execute(l, s))
WriteOf(l, s, p, lc) == WriteStmt(l, s, StmtExc(s), p, lc)
Write(l, p, lc) == WriteOf(l, Stmt(l), p, lc)

(***************************************************************************)
(* insert_tweet, one action per statement                                  *)
(***************************************************************************)
\* lines 460-461, 94: the main loop decodes a line and calls insert_tweet, which
\* opens a transaction
Enter(l, r) ==
    /\ cur' = [cur EXCEPT ![l] = r]
    /\ pc' = [pc EXCEPT ![l] = "gate"]
    /\ loc' = [loc EXCEPT ![l] = NoLocals]
    /\ outcome' = [outcome EXCEPT ![l] = "none"]
    /\ loads' = loads + 1
    /\ start' = [start EXCEPT ![l] = db]
    /\ alone' = [m \in Loaders |->
                    IF m = l THEN \A k \in Loaders \ {l} : ~InTransaction(k)
                    ELSE alone[m] /\ ~InTransaction(m)]
    /\ UNCHANGED <<db, pend, urls_seq, fault, hist, calls, probe>>
Begin(l) ==
    /\ pc[l] = "idle"
    /\ loads < MaxLoads
    /\ \E r \in Records : Enter(l, r)

\* insert_tweet without the check of lines 96-104
GateNever(l, id) ==
    IF IsExc(id) THEN Raise(l, id)
    ELSE Continue(l, "user_url", loc[l], pend[l])

\* lines 96-104: skip the tweet if it is already inserted
GateOn(l, id) ==
    IF IsExc(id) THEN Raise(l, id)
    ELSE IF Lookup(l, "tweets", id) # {}
    THEN Continue(l, "skip", loc[l], pend[l])
    ELSE Continue(l, "user_url", loc[l], pend[l])
Gate(l) ==
    /\ pc[l] = "gate"
    /\ UNCHANGED <<urls_seq, calls>>
    /\ GateOn(l, Subscript(Tweet(l), "id"))

\* the call get_id_urls(u, connection) from the place named ret
Call(l, u, ret) == Need(l, u, "gi_ins", [loc[l] EXCEPT !.url = u, !.ret = ret])

\* lines 108-111
UserUrlOf(l, u) ==
    IF u = None_
    THEN Continue(l, "user_check", [loc[l] EXCEPT !.user_id_urls = None_], pend[l])
    ELSE Call(l, u, "user")
UserUrl(l) ==
    /\ pc[l] = "user_url"
    /\ UNCHANGED <<urls_seq, calls>>
    /\ UserUrlOf(l, Subscript(Subscript(Tweet(l), "user"), "url"))

\* get_id_urls returns id_urls to the place it was called from
Return(l, id_urls, written) ==
    /\ calls' = calls \cup {[by |-> l, call |-> Len(hist[l]) + 1, from |-> loc[l].ret,
                              url |-> loc[l].url, id_urls |-> id_urls]}
    /\ CASE loc[l].ret = "user" ->
                Continue(l, "user_check", [loc[l] EXCEPT !.user_id_urls = id_urls], written)
          [] loc[l].ret = "link" ->
                Continue(l, "link_ins", [loc[l] EXCEPT !.id_urls = id_urls], written)
          [] OTHER ->
                Continue(l, "media_ins", [loc[l] EXCEPT !.id_urls = id_urls], written)

\* get_id_urls without the select of lines 64-73: the generated id is returned even
\* when the insert met a conflict
GiInsertNoSelect(l, s, written) == Return(l, s.row.id_urls, written)

\* lines 49-58, 63: insert the url; the sequence advances whether or not a row results
GiInsertOf(l, s, written) ==
    IF written = pend[l]
    THEN Continue(l, "gi_sel", loc[l], pend[l]) /\ UNCHANGED calls
    ELSE Return(l, s.row.id_urls, written)
GiInsert(l) ==
    /\ pc[l] = "gi_ins"
    /\ WaitsFor(l) = {}
    /\ urls_seq' = urls_seq + 1
    /\ GiInsertOf(l, Stmt(l), Execute(l, Stmt(l)))

\* lines 64-73: the insert returned no row: select the row that is there; res[0]
\* raises TypeError when the select finds none
GiSelectOf(l, res) ==
    IF res = {}
    THEN Raise(l, Exc("TypeError")) /\ UNCHANGED calls
    ELSE \E r \in res : Return(l, r.id_urls, pend[l])
GiSelect(l) ==
    /\ pc[l] = "gi_sel"
    /\ UNCHANGED urls_seq
    /\ GiSelectOf(l, Lookup(l, "urls", loc[l].url))

\* lines 115-124: check if the user already exists
UserCheckOf(l, id) ==
    IF IsExc(id) THEN Raise(l, id)
    ELSE Continue(l, "user_write", [loc[l] EXCEPT !.res_user = Lookup(l, "users", id) # {}],
                  pend[l])
UserCheck(l) ==
    /\ pc[l] = "user_check"
    /\ UNCHANGED <<urls_seq, calls>>
    /\ UserCheckOf(l, Subscript(Get(Tweet(l), "user", EmptyDict), "id"))

\* lines 161-182: update the user if the check found a row, else insert
UserWrite(l) ==
    /\ pc[l] = "user_write"
    /\ UNCHANGED <<urls_seq, calls>>
    /\ Write(l, "normalize", loc[l])

\* lines 188-234: geo, text, country_code, state_code, place_name
Normalize(l) ==
    /\ pc[l] = "normalize"
    /\ UNCHANGED <<urls_seq, calls>>
    /\ Need(l, NormalizeExc(Tweet(l)), "reply_check", loc[l])

\* the reply target inserted without the check of lines 242-246
ReplyCheckAlways(l, id) == Continue(l, "reply_stub", loc[l], pend[l])

\* the tweet inserted without the check of its reply target
ReplyCheckNever(l, id) == Continue(l, "tweet_ins", loc[l], pend[l])

\* lines 242-246: is the reply target in the users table?
ReplyCheckOf(l, id) ==
    IF id # None_ /\ Lookup(l, "users", id) = {}
    THEN Continue(l, "reply_stub", loc[l], pend[l])
    ELSE Continue(l, "tweet_ins", loc[l], pend[l])
ReplyCheck(l) ==
    /\ pc[l] = "reply_check"
    /\ UNCHANGED <<urls_seq, calls>>
    /\ ReplyCheckOf(l, Get(Tweet(l), "in_reply_to_user_id", None_))

\* lines 248-257: insert the reply target "unhydrated"
ReplyStubInsert(l) ==
    /\ pc[l] = "reply_stub"
    /\ UNCHANGED <<urls_seq, calls>>
    /\ Write(l, "tweet_ins", loc[l])

\* insert_tweet without the statement of lines 260-300
TweetInsertMissing(l) ==
    /\ pc[l] = "tweet_ins"
    /\ UNCHANGED <<urls_seq, calls>>
    /\ Continue(l, "links", [loc[l] EXCEPT !.i = 1], pend[l])

\* lines 260-300: insert the tweet
TweetInsert(l) ==
    /\ pc[l] = "tweet_ins"
    /\ UNCHANGED <<urls_seq, calls>>
    /\ Write(l, "links", [loc[l] EXCEPT !.i = 1])

\* the head of a "for" loop over list: its body runs on an element, or the loop is
\* over and l goes on at the statement after it
Loop(l, list, after, body) ==
    IF IsExc(list) THEN Raise(l, list)
    ELSE IF loc[l].i > Len(list.val) THEN Continue(l, after, [loc[l] EXCEPT !.i = 1], pend[l])
    ELSE body

\* lines 306-320: the next url of the tweet, resolved by get_id_urls
Links(l) ==
    /\ pc[l] = "links"
    /\ UNCHANGED <<urls_seq, calls>>
    /\ Loop(l, LoopList(l), "mentions", Call(l, Subscript(Item(l), "expanded_url"), "link"))

\* lines 324-325
LinkInsert(l) ==
    /\ pc[l] = "link_ins"
    /\ UNCHANGED <<urls_seq, calls>>
    /\ Write(l, "links", [loc[l] EXCEPT !.i = @ + 1])

\* lines 330-358: the next mention: insert the mentioned user "unhydrated"
Mentions(l) ==
    /\ pc[l] = "mentions"
    /\ UNCHANGED <<urls_seq, calls>>
    /\ Loop(l, LoopList(l), "tags", Write(l, "mention_ins", loc[l]))

\* lines 361-371
MentionInsert(l) ==
    /\ pc[l] = "mention_ins"
    /\ UNCHANGED <<urls_seq, calls>>
    /\ Write(l, "mentions", [loc[l] EXCEPT !.i = @ + 1])

\* lines 376-397: the next tag
Tags(l) ==
    /\ pc[l] = "tags"
    /\ UNCHANGED <<urls_seq, calls>>
    /\ Loop(l, LoopList(l), "media", Write(l, "tags", [loc[l] EXCEPT !.i = @ + 1]))

\* lines 403-421: the next medium, its url resolved by get_id_urls
Media(l) ==
    /\ pc[l] = "media"
    /\ UNCHANGED <<urls_seq, calls>>
    /\ Loop(l, LoopList(l), "commit", Call(l, Subscript(Item(l), "media_url"), "media"))

\* lines 423-426
MediaInsert(l) ==
    /\ pc[l] = "media_ins"
    /\ UNCHANGED <<urls_seq, calls>>
    /\ Write(l, "media", [loc[l] EXCEPT !.i = @ + 1])

\* line 94: the "with" block is left by the return of line 104 or at its end, and
\* the transaction commits
Commit(l) ==
    /\ pc[l] \in {"skip", "commit"}
    /\ db' = [tab \in Tables |-> View(l, tab)]
    /\ pend' = [pend EXCEPT ![l] = EmptyDb]
    /\ pc' = [pc EXCEPT ![l] = "idle"]
    /\ loc' = [loc EXCEPT ![l] = NoLocals]
    /\ outcome' = [outcome EXCEPT ![l] = IF pc[l] = "skip" THEN "Skipped" ELSE "Inserted"]
    /\ hist' = [hist EXCEPT ![l] = Append(@, Finished(l, outcome'[l], db'))]
    /\ UNCHANGED <<urls_seq, cur, loads, fault, start, alone, calls, probe>>

\* two transactions wait for each other: the database aborts one of them with
\* "deadlock detected", which its statement raises
Deadlock(l) ==
    /\ \E m \in WaitsFor(l) : l \in WaitsFor(m)
    /\ UNCHANGED <<urls_seq, calls>>
    /\ Raise(l, Exc("DeadlockDetected"))

Next ==
    \E l \in Loaders :
        \/ Begin(l)
        \/ Gate(l)
        \/ UserUrl(l)
        \/ GiInsert(l)
        \/ GiSelect(l)
        \/ UserCheck(l)
        \/ UserWrite(l)
        \/ Normalize(l)
        \/ ReplyCheck(l)
        \/ ReplyStubInsert(l)
        \/ TweetInsert(l)
        \/ Links(l)
        \/ LinkInsert(l)
        \/ Mentions(l)
        \/ MentionInsert(l)
        \/ Tags(l)
        \/ Media(l)
        \/ MediaInsert(l)
        \/ Commit(l)
        \/ Deadlock(l)

Spec == Init /\ [][Next]_vars

(***************************************************************************)
(* One loader working through a batch: the lines of lines 457-461, which   *)
(* hold records of any shape and lines that are not JSON.                  *)
(***************************************************************************)
\* the number of lines of the batch
MaxLines == 2

\* line 460: json.loads decodes the line into a record of any shape
BeginLine(l) ==
    /\ pc[l] = "idle"
    /\ loads < MaxLines
    /\ \E r \in DOMAIN Inputs : Enter(l, r)

\* line 460: json.loads raises JSONDecodeError on a line that is not JSON; nothing
\* catches it, and the process ends before insert_tweet is called
BadLine(l) ==
    /\ pc[l] = "idle"
    /\ loads < MaxLines
    /\ pc' = [pc EXCEPT ![l] = "crashed"]
    /\ fault' = [fault EXCEPT ![l] = [at |-> "decode", exc |-> "JSONDecodeError"]]
    /\ loads' = loads + 1
    /\ UNCHANGED <<db, pend, urls_seq, cur, loc, outcome, start, alone, hist, calls, probe>>

Step(l) ==
    \/ Gate(l)
    \/ UserUrl(l)
    \/ GiInsert(l)
    \/ GiSelect(l)
    \/ UserCheck(l)
    \/ UserWrite(l)
    \/ Normalize(l)
    \/ ReplyCheck(l)
    \/ ReplyStubInsert(l)
    \/ TweetInsert(l)
    \/ Links(l)
    \/ LinkInsert(l)
    \/ Mentions(l)
    \/ MentionInsert(l)
    \/ Tags(l)
    \/ Media(l)
    \/ MediaInsert(l)
    \/ Commit(l)

InitBatch == Idle /\ probe = [kind |-> "batch"]
NextBatch == BeginLine("L1") \/ BadLine("L1") \/ Step("L1")
SpecBatch == InitBatch /\ [][NextBatch]_vars


(***************************************************************************)
(* Properties.  A table is read as the set of its rows; ViewDb(l) is the   *)
(* database as the open transaction of l sees it.                          *)
(***************************************************************************)
HasKey(rows, tab, k) == \E r \in rows : Key(tab, r) = k
UniqueKeys(rows, tab) == \A r, q \in rows : Key(tab, r) = Key(tab, q) => r = q
ViewDb(l) == [tab \in Tables |-> View(l, tab)]

\* C2: failure atomicity.  When a statement of insert_tweet raises after the gate, the
\* step that raises leaves the committed rows as they were and drops every row the
\* transaction wrote; if no other transaction was open during the call, the committed
\* rows after the failure are those of the moment the call began.
C2_FailureAtomicity ==
    [][\A l \in Loaders :
          pc[l] # "crashed" /\ pc'[l] = "crashed" =>
              /\ db' = db
              /\ pend'[l] = EmptyDb
              /\ \A m \in Loaders \ {l} : ViewDb(m)' = ViewDb(m)
              /\ alone[l] => db' = start[l]]_vars

\* a call failed at the second link of its tweet, after it had written the user, the
\* url, the tweet and the first tweet_urls row, and none of them is committed
C2_Witness ==
    \E l \in Loaders :
        /\ pc[l] = "crashed"
        /\ fault[l] = [at |-> "links", exc |-> "KeyError"]
        /\ ~HasKey(db.tweets, "tweets", Catalogue[cur[l]].val.id)
        /\ pend[l] = EmptyDb

\* the rows of d that refer to a user or a url refer to a row of d
RefsOK(d) ==
    /\ \A t \in d.tweets :
          /\ HasKey(d.users, "users", t.id_users)
          /\ t.in_reply_to_user_id # None_ => HasKey(d.users, "users", t.in_reply_to_user_id)
    /\ \A m \in d.tweet_mentions : HasKey(d.users, "users", m.id_users)
    /\ \A x \in d.tweet_urls : \E u \in d.urls : u.id_urls = x.id_urls
    /\ \A x \in d.tweet_media : \E u \in d.urls : u.id_urls = x.id_urls

\* C3: referential completeness.  In the committed database, and at every statement
\* inside every open transaction, each tweets row has a users row for its author and
\* for its reply target, each tweet_mentions row has a users row for the mentioned
\* user, and each tweet_urls and tweet_media row has the urls row of its id_urls: the
\* row referred to is written, or found, before the row that refers to it.
C3_ReferentialCompleteness ==
    /\ RefsOK(db)
    /\ \A l \in Loaders : RefsOK(ViewDb(l))

\* a committed reply whose target has a users row, with committed mention, link and
\* media rows, while an open transaction has written a tweet of its own
C3_Witness ==
    /\ \E t \in db.tweets : t.in_reply_to_user_id # None_
    /\ db.tweet_mentions # {}
    /\ db.tweet_urls # {}
    /\ db.tweet_media # {}
    /\ \E l \in Loaders : pend[l].tweets # {} /\ pend[l].tweet_mentions # {}

\* C4: natural-key uniqueness.  In the committed database and in the view of every
\* open transaction, no two users rows share an id_users, no two tweets rows share an
\* id_tweets and no two urls rows share a url, however the loaders interleave.
C4_NaturalKeyUniqueness ==
    \A tab \in {"users", "tweets", "urls"} :
        /\ UniqueKeys(db[tab], tab)
        /\ \A l \in Loaders : UniqueKeys(ViewDb(l)[tab], tab)

\* a loader's insert of a url was discarded because another loader created the row
\* for that url while the loader's transaction was open
C4_Witness ==
    \E l \in Loaders :
        /\ pc[l] = "gi_sel"
        /\ ~HasKey(start[l].urls, "urls", loc[l].url)
        /\ ~HasKey(pend[l].urls, "urls", loc[l].url)
        /\ HasKey(db.urls, "urls", loc[l].url)


\* the finished calls of loader l, by their position in hist[l]
CallsOf(l) == 1..Len(hist[l])
TweetOf(e) == Inputs[e.rec]
IdOf(tweet) == Get(tweet, "id", None_)
PosterOf(tweet) == Get(Get(tweet, "user", EmptyDict), "id", None_)
ReplyTargetOf(tweet) == Get(tweet, "in_reply_to_user_id", None_)

\* C1: idempotency.  A call of insert_tweet that ran with no other transaction open,
\* on a record whose id was not in tweets when the call began, ends as Inserted; the
\* next call of the same loader on the same record ends as Skipped, and when no other
\* transaction was open during it, it leaves the committed rows as they were.
C1_Idempotency ==
    \A l \in Loaders : \A i \in CallsOf(l) :
        /\ hist[l][i].alone /\ hist[l][i].fresh => hist[l][i].oc = "Inserted"
        /\ i > 1 /\ hist[l][i - 1].rec = hist[l][i].rec /\ hist[l][i - 1].oc = "Inserted"
              => /\ hist[l][i].oc = "Skipped"
                 /\ hist[l][i].alone => hist[l][i].same

\* C8: concurrent loaders.  No loader is ended by the error of an insert that waited
\* for a row another loader's open transaction had written.
C8_ConcurrentLoadersNeverFail ==
    \A l \in Loaders : fault[l].exc # "DeadlockDetected"

\* the kind of a value of geo
GeoKind(g) ==
    IF IsExc(g) THEN "error"
    ELSE IF g = None_ THEN "Unknown"
    ELSE IF g = EmptyStr THEN "unset"
    ELSE g.kind

\* the record carries a coordinate pair in geo; a bounding region in place
HasPair(tweet) == ~IsExc(GeoPair(Subscript(Subscript(tweet, "geo"), "coordinates")))
HasBox(tweet) ==
    ~IsExc(PolygonOf(Subscript(Subscript(Subscript(tweet, "place"), "bounding_box"),
                               "coordinates")))
ExpectedKind(tweet) ==
    IF HasPair(tweet) THEN "POINT"
    ELSE IF HasBox(tweet) THEN "POLYGON"
    ELSE IF Truthy(Get(Get(tweet, "user", EmptyDict), "geo_enabled", None_)) THEN "Unknown"
    ELSE "unset"

\* l's call has run the geometry statements of lines 188-212
PastGeometry(l) ==
    \/ pc[l] \in {"reply_check", "reply_stub", "tweet_ins", "links", "link_ins", "mentions",
                  "mention_ins", "tags", "media", "media_ins", "commit"}
    \/ pc[l] = "crashed" /\ fault[l].at = "normalize"
    \/ pc[l] \in {"gi_ins", "gi_sel"} /\ loc[l].ret # "user"

\* C10: geometry priority.  For every record whose call has run the geometry
\* statements, geo is a POINT when the record carries a coordinate pair, else a POLYGON
\* when it carries a bounding region, else Unknown (None) when the author's
\* geo_enabled is true, else unset (''); and that is the geo of the tweets row written.
C10_GeometryPriority ==
    \A l \in Loaders :
        /\ PastGeometry(l) => GeoKind(NormalizeGeo(Tweet(l))) = ExpectedKind(Tweet(l))
        /\ \A row \in pend[l].tweets : GeoKind(row.geo) = ExpectedKind(Tweet(l))


\* the transaction of a returned get_id_urls call is open, or has committed
Open(c) == c.call > Len(hist[c.by])
Live(c) == Open(c) \/ hist[c.by][c.call].oc # "Failed"
UrlRows(c) == IF Open(c) THEN Lookup(c.by, "urls", c.url) ELSE {r \in db.urls : r.url = c.url}

Hydrated(row) == \E r \in DOMAIN Inputs : row = UserData(Inputs[r], row.id_urls)

\* l is at the insert of an "unhydrated" user who has a hydrated row
AtStubOfHydrated(l) ==
    /\ pc[l] \in {"mentions", "reply_stub"}
    /\ Stmt(l).kind = "insert"
    /\ \E row \in Lookup(l, "users", Stmt(l).row.id_users) : Hydrated(row)

\* C6: hydration is never downgraded.  When a loader is at the insert of a mentioned
\* user or of a reply target who has a hydrated users row, the loader's step neither
\* raises an error nor changes that row.
C6_HydrationNeverDowngraded ==
    [][\A l \in Loaders :
          AtStubOfHydrated(l) /\ pc'[l] # pc[l] =>
              /\ pc'[l] # "crashed"
              /\ Lookup(l, "users", Stmt(l).row.id_users)'
                    = Lookup(l, "users", Stmt(l).row.id_users)]_vars

\* C7: stub-then-hydrate.  After a call has ended as Inserted and has stored its tweets
\* row, the committed users row of the poster carries the values of that record in
\* every profile field, whether the poster had a row before or not.
C7_StubThenHydrate ==
    \A l \in Loaders : \A i \in CallsOf(l) :
        hist[l][i].oc = "Inserted" /\ hist[l][i].stored
            => \E row \in hist[l][i].author :
                   row = UserData(TweetOf(hist[l][i]), row.id_urls)


\* the tweet has no mentions
NoMentions(tweet) == EntityList(tweet, "user_mentions") = PyList(<<>>)
\* a users row with only id_users set, to id
OnlyId(row, id) ==
    /\ row.id_users = id
    /\ \A c \in DOMAIN row \ {"id_users"} : row[c] = None_

\* C9: the reply-target stub.  At the check of the reply target, the insert of the
\* "unhydrated" user is issued exactly when the target is not null and has no users
\* row in the transaction's view (the poster's own row, written earlier in the
\* transaction, counts).  When the insert runs and the target still has no row, it adds
\* exactly one row, with only id_users set, and it runs before the insert of the tweet;
\* the insert of the tweet adds exactly one tweets row when the id has none, the
\* target then having a users row.  Both rows are committed by the one commit of the
\* call, and a tweet without mentions has written no other users row than the poster's
\* and that one.
C9_ReplyTargetStub ==
    [][\A l \in Loaders :
          /\ pc[l] = "reply_check" /\ pc'[l] # pc[l] =>
                (pc'[l] = "reply_stub")
                    = (/\ ReplyTargetOf(Tweet(l)) # None_
                       /\ Lookup(l, "users", ReplyTargetOf(Tweet(l))) = {})
          /\ pc[l] = "reply_stub" /\ pc'[l] = "tweet_ins" =>
                /\ pend[l].tweets = {} /\ pend'[l].tweets = {}
                /\ \A tab \in Tables \ {"users"} : pend'[l][tab] = pend[l][tab]
                /\ IF Lookup(l, "users", ReplyTargetOf(Tweet(l))) = {}
                   THEN \E row \in pend'[l].users :
                            /\ OnlyId(row, ReplyTargetOf(Tweet(l)))
                            /\ row \notin pend[l].users
                            /\ pend'[l].users = pend[l].users \cup {row}
                   ELSE pend'[l].users = pend[l].users
          /\ pc[l] = "tweet_ins" /\ pc'[l] = "links" =>
                /\ ReplyTargetOf(Tweet(l)) # None_
                      => HasKey(View(l, "users"), "users", ReplyTargetOf(Tweet(l)))
                /\ \A tab \in Tables \ {"tweets"} : pend'[l][tab] = pend[l][tab]
                /\ IF Lookup(l, "tweets", IdOf(Tweet(l))) = {}
                   THEN \E row \in pend'[l].tweets :
                            /\ row.id_tweets = IdOf(Tweet(l))
                            /\ row.in_reply_to_user_id = ReplyTargetOf(Tweet(l))
                            /\ pend'[l].tweets = {row}
                   ELSE pend'[l].tweets = {}
          /\ pc[l] = "commit" /\ pc'[l] = "idle" =>
                /\ \A tab \in Tables : pend[l][tab] \subseteq db'[tab]
                /\ NoMentions(Tweet(l)) =>
                      \A row \in pend[l].users :
                          \/ row.id_users = PosterOf(Tweet(l))
                          \/ OnlyId(row, ReplyTargetOf(Tweet(l)))]_vars

\* a reply without mentions, to a user who had no users row, is about to commit: its
\* transaction has written the row of the reply target, with only id_users set, and the
\* tweets row
C9_Witness ==
    \E l \in Loaders :
        /\ pc[l] = "commit"
        /\ NoMentions(Tweet(l))
        /\ ReplyTargetOf(Tweet(l)) # None_
        /\ ~HasKey(start[l].users, "users", ReplyTargetOf(Tweet(l)))
        /\ \E row \in pend[l].users : OnlyId(row, ReplyTargetOf(Tweet(l)))
        /\ \E row \in pend[l].tweets : row.id_tweets = IdOf(Tweet(l))


(***************************************************************************)
(* Two records in both orders: the program loads record a then record b    *)
(* into an empty database, and is then run again, on an empty database,    *)
(* with b then a.                                                          *)
(***************************************************************************)
Pairs ==
    {[kind |-> "order", a |-> p[1], b |-> p[2], run |-> 1, first |-> EmptyDb, ocs |-> <<>>] :
        p \in {q \in Records \X Records : Catalogue[q[1]].val.id # Catalogue[q[2]].val.id}}

InitOrder == Idle /\ probe \in Pairs

\* the lines of the run under way
Script == IF probe.run = 1 THEN <<probe.a, probe.b>> ELSE <<probe.b, probe.a>>

\* lines 457-461: the next line of the run
BeginScript(l) ==
    /\ pc[l] = "idle"
    /\ Len(hist[l]) < Len(Script)
    /\ Enter(l, Script[Len(hist[l]) + 1])

\* l's run is over: its lines are exhausted, or an exception has ended the process
RunOver(l) == pc[l] = "crashed" \/ (pc[l] = "idle" /\ Len(hist[l]) = Len(Script))

\* lines 443-446: the program is started again, on an empty database; what the first
\* run left is kept for the comparison
Rerun(l) ==
    /\ probe.run = 1
    /\ RunOver(l)
    /\ probe' = [probe EXCEPT !.run = 2, !.first = db,
                              !.ocs = [i \in 1..Len(hist[l]) |-> hist[l][i]]]
    /\ db' = EmptyDb
    /\ pend' = [m \in Loaders |-> EmptyDb]
    /\ urls_seq' = 1
    /\ pc' = [m \in Loaders |-> "idle"]
    /\ cur' = [m \in Loaders |-> "none"]
    /\ loc' = [m \in Loaders |-> NoLocals]
    /\ outcome' = [m \in Loaders |-> "none"]
    /\ loads' = 0
    /\ fault' = [m \in Loaders |-> NoFault]
    /\ start' = [m \in Loaders |-> EmptyDb]
    /\ alone' = [m \in Loaders |-> TRUE]
    /\ hist' = [m \in Loaders |-> <<>>]
    /\ calls' = {}

NextOrder == BeginScript("L1") \/ Step("L1") \/ Rerun("L1")
SpecOrder == InitOrder /\ [][NextOrder]_vars

\* the url behind an id_urls of the rows d
UrlOf(d, id) ==
    IF \E r \in d.urls : r.id_urls = id
    THEN (CHOOSE r \in d.urls : r.id_urls = id).url
    ELSE id

\* the rows d with every id_urls replaced by the url it stands for: two stores that
\* differ only in the surrogate ids of their urls rows have the same image
Canon(d) ==
    [users |-> {[r EXCEPT !.id_urls = UrlOf(d, @)] : r \in d.users},
     tweets |-> d.tweets,
     tweet_urls |-> {[r EXCEPT !.id_urls = UrlOf(d, @)] : r \in d.tweet_urls},
     tweet_mentions |-> d.tweet_mentions,
     tweet_tags |-> d.tweet_tags,
     tweet_media |-> {[r EXCEPT !.id_urls = UrlOf(d, @)] : r \in d.tweet_media}]

\* both runs are over
BothRunsOver == probe.kind = "order" /\ probe.run = 2 /\ RunOver("L1")

\* C17 as stated: the store left by a then b and the store left by b then a hold the
\* same users, tweets and association rows, up to the surrogate ids of urls rows.
C17_OrderIndependence ==
    BothRunsOver => Canon(db) = Canon(probe.first)

\* the record r was loaded as Inserted in the calls es
InsertedIn(es, r) == \E i \in 1..Len(es) : es[i].rec = r /\ es[i].oc = "Inserted"
InsertedTwice(r) == InsertedIn(probe.ocs, r) /\ InsertedIn(hist["L1"], r)

\* the tweets row and the association rows of tweet id in the rows c
PostRows(c, id) ==
    [tab \in Tables \ {"users", "urls"} |-> {r \in c[tab] : r.id_tweets = id}]

\* the user id is the poster of exactly one record of the pair
PostsOne(id) ==
    (PosterOf(Catalogue[probe.a]) = id) # (PosterOf(Catalogue[probe.b]) = id)

\* C17, amended: a record that both runs load as Inserted leaves the same tweets row
\* and the same association rows in both stores, up to the surrogate ids of urls
\* rows; when both runs load both records as Inserted, the two stores hold the same
\* tweets and association rows, they have users rows for the same users, and the same
\* row for every user who is the poster of exactly one of the two records.
C17_OrderIndependenceOfPosts ==
    BothRunsOver =>
        /\ \A r \in {probe.a, probe.b} :
              InsertedTwice(r) =>
                  PostRows(Canon(db), IdOf(Catalogue[r]))
                      = PostRows(Canon(probe.first), IdOf(Catalogue[r]))
        /\ InsertedTwice(probe.a) /\ InsertedTwice(probe.b) =>
              /\ [Canon(db) EXCEPT !.users = {}] = [Canon(probe.first) EXCEPT !.users = {}]
              /\ {u.id_users : u \in db.users} = {u.id_users : u \in probe.first.users}
              /\ \A u \in Canon(db).users :
                    PostsOne(u.id_users) => u \in Canon(probe.first).users

\* both runs have loaded both records as Inserted, the records have the same poster
\* with different profiles, and the row of that poster differs between the stores
C17_Witness ==
    /\ BothRunsOver
    /\ InsertedTwice(probe.a) /\ InsertedTwice(probe.b)
    /\ PosterOf(Catalogue[probe.a]) = PosterOf(Catalogue[probe.b])
    /\ \E u \in Canon(db).users :
          u.id_users = PosterOf(Catalogue[probe.a]) /\ u \notin Canon(probe.first).users

(***************************************************************************)
(* remove_nulls on its own: a call on None or on any string of at most     *)
(* MaxLen characters.                                                      *)
(***************************************************************************)
MaxLen == 4
Chars == {"a", "b", NUL}
Strings == UNION {[1..n -> Chars] : n \in 0..MaxLen}
Arguments == {None_} \cup {PyStr(cs) : cs \in Strings}
Pending == [ty |-> "pending"]

InitSan == Idle /\ probe \in {[kind |-> "sanitize", s |-> a, out |-> Pending] : a \in Arguments}

\* the call remove_nulls(s) returns
Sanitize ==
    /\ probe.out = Pending
    /\ probe' = [probe EXCEPT !.out = remove_nulls(probe.s)]
    /\ UNCHANGED <<db, pend, urls_seq, pc, cur, loc, outcome, loads, fault, start, alone,
                   hist, calls>>

NextSan == Sanitize
SpecSan == InitSan /\ [][NextSan]_vars

\* the positions of cs that hold another character than NUL
KeptPositions(cs) == {p \in 1..Len(cs) : cs[p] # NUL}

\* C15: remove_nulls.  remove_nulls(None) is None; for a string s the result is a
\* string without NUL that holds the other characters of s, each once, in their
\* order: the k-th character of s that is not NUL is the k-th character of the result.
C15_RemoveNulls ==
    probe.kind = "sanitize" /\ probe.out # Pending =>
        IF probe.s = None_ THEN probe.out = None_
        ELSE /\ probe.out.ty = "str"
             /\ \A i \in 1..Len(probe.out.val) : probe.out.val[i] # NUL
             /\ Len(probe.out.val) = Cardinality(KeptPositions(probe.s.val))
             /\ \A p \in KeptPositions(probe.s.val) :
                    probe.out.val[Cardinality({q \in KeptPositions(probe.s.val) : q <= p})]
                        = probe.s.val[p]

\* the call on a string with two NULs, one of them at its start, has returned
C15_Witness ==
    /\ probe.kind = "sanitize"
    /\ probe.s = PyStr(<<NUL, "a", NUL, "b">>)
    /\ probe.out = PyStr(<<"a", "b">>)

(***************************************************************************)
(* Properties of one load, whatever the shape of its record (SpecBatch)    *)
(***************************************************************************)
\* l's current call has run statement p: it failed there, or has gone past it
Order ==
    <<"gate", "user_url", "user_check", "user_write", "normalize", "reply_check",
      "reply_stub", "tweet_ins", "links", "link_ins", "mentions", "mention_ins", "tags",
      "media", "media_ins", "commit">>
Rank(p) == CHOOSE i \in 1..Len(Order) : Order[i] = p
HasRun(l, p) ==
    \/ pc[l] = "crashed" /\ fault[l].at = p
    \/ pc[l] \in {"gi_ins", "gi_sel"} /\ Rank(p) < Rank(IF loc[l].ret = "user" THEN "user_check"
                                                         ELSE IF loc[l].ret = "link" THEN "link_ins"
                                                         ELSE "media_ins")
    \/ pc[l] \in {Order[i] : i \in 1..Len(Order)} /\ Rank(p) < Rank(pc[l])

\* C11: geometry errors never propagate.  Whatever the shape of geo and place in the
\* record (key absent, null, an inner field missing or null, a wrong type), the
\* geometry statements of lines 188-212 end with a value of geo (a POINT, a POLYGON,
\* None or ''), never with an exception that leaves insert_tweet.
C11_GeometryErrorsNeverPropagate ==
    \A l \in Loaders : HasRun(l, "normalize") => ~IsExc(NormalizeGeo(Tweet(l)))


\* the collection k of the richer container, and of the base container
Richer(tweet, k) == Subscript(Subscript(Subscript(tweet, "extended_tweet"), "entities"), k)
Base(tweet, k) == Subscript(Subscript(tweet, "entities"), k)
\* the first of the values xs that is there, an empty collection when none is
RECURSIVE FirstPresent(_)
FirstPresent(xs) ==
    IF xs = <<>> THEN PyList(<<>>)
    ELSE IF IsExc(Head(xs)) THEN FirstPresent(Tail(xs)) ELSE Head(xs)
ExpectedList(tweet, k) == FirstPresent(<<Richer(tweet, k), Base(tweet, k)>>)
ExpectedMedia(tweet) ==
    FirstPresent(<<Subscript(Subscript(Subscript(tweet, "extended_tweet"), "extended_entities"),
                             "media"),
                   Subscript(Subscript(tweet, "extended_entities"), "media")>>)

\* C12: entity container fallback.  Once a call has evaluated the collection of a
\* loop (links, mentions, tags, media), the collection is the one of the richer
\* container when that has it, else the one of the base container, else an empty
\* collection; in particular evaluating it has raised nothing.
C12_EntityContainerFallback ==
    \A l \in Loaders :
        /\ HasRun(l, "links") => EntityList(Tweet(l), "urls") = ExpectedList(Tweet(l), "urls")
        /\ HasRun(l, "mentions")
              => EntityList(Tweet(l), "user_mentions") = ExpectedList(Tweet(l), "user_mentions")
        /\ HasRun(l, "tags")
              => TagList(Tweet(l)) = TagsOf(ExpectedList(Tweet(l), "hashtags"),
                                            ExpectedList(Tweet(l), "symbols"))
        /\ HasRun(l, "media") => MediaList(Tweet(l)) = ExpectedMedia(Tweet(l))


\* C14: the batch continues past bad lines.  A line that does not decode, or a record
\* whose load fails, never ends the loader while lines of its batch are left: the
\* loader goes on to the next line.
C14_BatchContinuesPastBadLines ==
    \A l \in Loaders : ~(pc[l] = "crashed" /\ loads < MaxLines)

\* the value x, when it is a string, holds no NUL
NoNul(x) == x.ty = "str" => \A i \in 1..Len(x.val) : x.val[i] # NUL

\* no free-text field of the rows d holds a NUL
FreeTextClean(d) ==
    /\ \A u \in d.users :
          NoNul(u.screen_name) /\ NoNul(u.name) /\ NoNul(u.location) /\ NoNul(u.description)
    /\ \A t \in d.tweets : NoNul(t.text) /\ NoNul(t.source)
    /\ \A g \in d.tweet_tags : NoNul(g.tag)

\* C19: sanitization coverage.  No free-text field of a stored row (committed, or
\* written by an open transaction) holds a NUL; and the structural value
\* withheld_in_countries of a record does not pass through remove_nulls: once the call
\* has built the parameters of the poster's row (lines 165-181), the value in them is
\* the value of the record.
C19_SanitizationCoverage ==
    /\ FreeTextClean(db)
    /\ \A l \in Loaders :
          /\ FreeTextClean(ViewDb(l))
          /\ HasRun(l, "user_write") =>
                UserData(Tweet(l), loc[l].user_id_urls).withheld_in_countries
                    = Get(Tweet(l), "withheld_in_countries", None_)

(***************************************************************************)
(* Properties of concurrent loaders (Spec), continued                      *)
(***************************************************************************)
\* l is inside get_id_urls
InGetIdUrls(l) == pc[l] \in {"gi_ins", "gi_sel"}

\* C13: the outcome of get_id_urls.  A call that ends either returns the id_urls of a
\* urls row that exists for its url, or fails with ResolutionError; after a discarded
\* insert whose follow-up select finds no row the call goes back to the insert, and
\* when it fails the transaction of the record is rolled back.
C13_GetIdUrlsOutcome ==
    [][\A l \in Loaders :
          InGetIdUrls(l) /\ pc'[l] # pc[l] =>
              \/ pc[l] = "gi_ins" /\ pc'[l] = "gi_sel" /\ Lookup(l, "urls", loc[l].url) # {}
              \/ pc[l] = "gi_sel" /\ pc'[l] = "gi_ins" /\ Lookup(l, "urls", loc[l].url) = {}
              \/ /\ pc'[l] \in {"user_check", "link_ins", "media_ins"}
                 /\ \E c \in calls' \ calls :
                        /\ c.by = l /\ c.url = loc[l].url
                        /\ [url |-> c.url, id_urls |-> c.id_urls] \in View(l, "urls")'
              \/ /\ pc'[l] = "crashed"
                 /\ fault'[l].exc = "ResolutionError"
                 /\ pend'[l] = EmptyDb]_vars


\* C16: the frame of the idempotency gate.  When the gate finds the id of the record in
\* tweets, the call goes to its end without a statement in between: it has written no
\* row, it commits nothing (every table is as before, and no id_urls was drawn) and
\* ends as Skipped, whatever else of the record differs from what is stored.  No step
\* of any loader removes or changes a committed tweets row.
C16_GateFrame ==
    [][/\ \A l \in Loaders :
            /\ pc[l] = "gate" /\ pc'[l] # pc[l] /\ Lookup(l, "tweets", IdOf(Tweet(l))) # {}
                  => pc'[l] = "skip" /\ pend'[l] = EmptyDb
            /\ pc[l] = "skip" /\ pc'[l] # pc[l]
                  => /\ pc'[l] = "idle"
                     /\ outcome'[l] = "Skipped"
                     /\ pend[l] = EmptyDb
                     /\ db' = db
                     /\ urls_seq' = urls_seq
       /\ \A row \in db.tweets : row \in db'.tweets]_vars

\* a call has ended as Skipped on a record whose text and poster's profile differ from
\* those of the stored tweet with its id
C16_Witness ==
    \E l \in Loaders : \E i \in CallsOf(l) :
        /\ hist[l][i].oc = "Skipped"
        /\ \E row \in db.tweets :
              /\ row.id_tweets = IdOf(TweetOf(hist[l][i]))
              /\ row.text # remove_nulls(NormalizeText(TweetOf(hist[l][i])))
        /\ \E row \in db.users :
              /\ row.id_users = PosterOf(TweetOf(hist[l][i]))
              /\ row # UserData(TweetOf(hist[l][i]), row.id_urls)


\* C18: hydration is not lost under concurrency.  Once a call on a record posted by X
\* has committed as Inserted, the committed users row of X is a hydrated one (every
\* profile field that of a full observation of X), whatever another loader did between
\* the call's check of X (lines 117-124) and its insert or update of X (line 182).
C18_HydrationNotLost ==
    \A l \in Loaders : \A i \in CallsOf(l) :
        hist[l][i].oc = "Inserted" =>
            \E row \in db.users :
                row.id_users = PosterOf(TweetOf(hist[l][i])) /\ Hydrated(row)


\* the tables whose rows belong to a tweet
Associations == {"tweet_urls", "tweet_mentions", "tweet_tags", "tweet_media"}

\* C20: associations never outlive or precede their tweet.  In every committed state,
\* whatever the interleaving of loads, commits and rollbacks, every tweet_urls,
\* tweet_mentions, tweet_tags and tweet_media row has the id_tweets of a committed
\* tweets row.
C20_AssociationsHaveTheirPost ==
    \A tab \in Associations :
        \A r \in db[tab] : HasKey(db.tweets, "tweets", r.id_tweets)

\* two loaders have loaded a record with the same id at once: both calls passed the
\* gate and ended as Inserted, the tweets insert of one of them was discarded, and its
\* association rows are committed
C20_Witness ==
    \E l \in Loaders : \E m \in Loaders \ {l} :
        \E i \in CallsOf(l) : \E j \in CallsOf(m) :
            /\ hist[l][i].oc = "Inserted" /\ hist[m][j].oc = "Inserted"
            /\ IdOf(TweetOf(hist[l][i])) = IdOf(TweetOf(hist[m][j]))
            /\ \E r \in db.tweet_mentions : r.id_tweets = IdOf(TweetOf(hist[l][i]))
            /\ \E r \in db.tweet_urls : r.id_tweets = IdOf(TweetOf(hist[l][i]))

====
